---- MODULE Spec2Model ----
(***************************************************************************)
(* Model of src/src/lib.rs: the region extractor extract_mip_level, the    *)
(* DFD builder create_rgb9e5_dfd and the container writer write_ktx2.      *)
(*                                                                         *)
(* A behaviour is one call of the library on one source image: either a    *)
(* direct call extract_mip_level(image, mip_level, face) or a call         *)
(* write_ktx2(image, output_path), which is followed statement by          *)
(* statement.                                                              *)
(*                                                                         *)
(* The content of the source buffer is arbitrary, so each of its bytes is  *)
(* represented by its position in the buffer (byte i of image.data is the  *)
(* number i).  A slice is then the sequence of the positions it copies, a  *)
(* half-float is the pair of the two bytes it is read from and a packed    *)
(* word is the triple of half-floats it encodes.  The DFD bytes are        *)
(* concrete.                                                               *)
(***************************************************************************)
EXTENDS Integers, Sequences, FiniteSets, TLC

\* ------------------------------------------------------------------ bounds
MaxDim == 4
MaxMips == 3

\* ------------------------------------------------------- program constants
\* for face in 0..6
NumFaces == 6
\* f16data.chunks(4)
ChunkLen == 4
\* size_of::<f16>() in to_vec_f16_from_byte_slice (vecs.len() / 2)
F16Bytes == 2
\* size_of::<u32>() in u32_to_bytes (vecs.len() * 4)
U32Bytes == 4
NUM_SAMPLES == 6
BASIC_BLOCK_BYTE_LENGTH == 24 + 16 * NUM_SAMPLES
VERSION_NUMBER == 2
COLOR_MODEL_RGBSDA == 1
COLOR_PRIMARIES_BT709 == 1
TRANSFER_LINEAR == 1
FLAGS_STRAIGHT_ALPHA == 0
QUAL_NONE == 0
QUAL_EXPONENT == 2
CH_R == 0
CH_G == 1
CH_B == 2
CH_EXPONENT == 3

\* descriptor.format.block_copy_size(None), an Option<u32>, as a sequence:
\* << >> is None (Depth24Plus, Depth24PlusStencil8, NV12), << n >> is Some(n):
\* 1 (R8Unorm), 2 (R16Float, Rg8Unorm), 4 (Rgba8Unorm), 8 (Rgba16Float, the
\* format of the spec's SourceImage), 16 (Rgba32Float and the 16-byte
\* block-compressed formats).
BlockSizes == { << >>, << 1 >>, << 2 >>, << 4 >>, << 8 >>, << 16 >> }

\* The panic messages of the library, and the kinds of outcome of a call.
MsgNone == "none"
MsgCompressed == "Only uncompressed images supported"
MsgMipLevel == "Mip level requested, but only mip_level_count are avaliable."
MsgSlice == "range end index out of range for slice"
MsgUnwrapNone == "called Option::unwrap() on a None value"
MsgIndex1 == "index out of bounds: the len is 1 but the index is 1"
MsgIndex2 == "index out of bounds: the len is 2 but the index is 2"
MsgUbCheck == "unsafe precondition(s) violated: slice::from_raw_parts requires the pointer to be aligned and non-null"
MsgZstd == "called Result::unwrap() on an Err value: zstd"
MsgCreate == "called Result::unwrap() on an Err value: io::Error (File::create)"
MsgWrite == "called Result::unwrap() on an Err value: io::Error (KTX2Writer::write)"

\* ------------------------------------------------------------ arithmetic
Pow2(n) == 2 ^ n

\* u32 `<<`: the bits shifted past bit 31 are dropped
Shl(a, n) == (a % Pow2(32 - n)) * Pow2(n)

RECURSIVE BitOr(_, _)
\* u32 `|`
BitOr(a, b) ==
    IF a = 0 THEN b
    ELSE IF b = 0 THEN a
    ELSE (IF a % 2 = 1 \/ b % 2 = 1 THEN 1 ELSE 0) + 2 * BitOr(a \div 2, b \div 2)

\* u32::to_le_bytes
to_le_bytes(word) ==
    << word % 256, (word \div 256) % 256, (word \div 65536) % 256,
       (word \div 16777216) % 256 >>

\* ------------------------------------------------------ extract_mip_level
Panic(kind, msg) ==
    [kind |-> kind, msg |-> msg, data |-> << >>, width |-> 0, height |-> 0,
     byte_offset |-> 0, len |-> 0]

RECURSIVE ChainLoop(_, _, _, _)
\* for _ in 0..descriptor.mip_level_count { byte_offset += w*b*h; w /= 2; h /= 2 }
\* the bytes the loop adds in n iterations starting from width x height
ChainLoop(width, height, block_size, n) ==
    IF n = 0 THEN 0
    ELSE width * block_size * height
         + ChainLoop(width \div 2, height \div 2, block_size, n - 1)

\* let block_size = descriptor.format.block_copy_size(None).unwrap() as usize,
\* where the Option is Some
BlockSize(img) == img.block_copy_size[1]

\* faulty variant: a face is taken to hold its base level only
FaceLoopBaseOnly(img, n) == n * (img.width * BlockSize(img) * img.height)

RECURSIVE FaceLoop(_, _)
\* for _ in 0..face { width, height restart from the base; inner loop }
FaceLoop(img, n) ==
    IF n = 0 THEN 0
    ELSE ChainLoop(img.width, img.height, BlockSize(img), img.mip_level_count)
         + FaceLoop(img, n - 1)

RECURSIVE MipLoopClamped(_, _, _, _, _)
\* faulty variant: a dimension is clamped to 1 instead of reaching 0
MipLoopClamped(byte_offset, width, height, block_size, n) ==
    IF n = 0 THEN [byte_offset |-> byte_offset, width |-> width, height |-> height]
    ELSE MipLoopClamped(byte_offset + width * block_size * height,
                        IF width \div 2 = 0 THEN 1 ELSE width \div 2,
                        IF height \div 2 = 0 THEN 1 ELSE height \div 2,
                        block_size, n - 1)

RECURSIVE MipLoop(_, _, _, _, _)
\* for _ in 0..mip_level { byte_offset += w*b*h; w /= 2; h /= 2 }
MipLoop(byte_offset, width, height, block_size, n) ==
    IF n = 0 THEN [byte_offset |-> byte_offset, width |-> width, height |-> height]
    ELSE MipLoop(byte_offset + width * block_size * height,
                 width \div 2, height \div 2, block_size, n - 1)

\* byte_offset, width and height as they stand before the slice is taken
Region(img, mip_level, face_) ==
    LET r == MipLoop(FaceLoop(img, face_), img.width, img.height,
                     BlockSize(img), mip_level)
    IN  [byte_offset |-> r.byte_offset, width |-> r.width, height |-> r.height,
         len |-> r.width * BlockSize(img) * r.height]

\* image.data[byte_offset..byte_offset + len].to_vec()
Slice(byte_offset, len) == [i \in 1..len |-> byte_offset + i - 1]

extract_mip_level(img, mip_level, face_) ==
    IF img.mip_level_count < mip_level
    THEN Panic("panic", MsgMipLevel)
    ELSE IF img.block_copy_size = << >>
    THEN Panic("panic", MsgUnwrapNone)
    ELSE LET r == Region(img, mip_level, face_)
         IN  IF r.byte_offset + r.len > img.data_len
             THEN Panic("panic", MsgSlice)
             ELSE [kind |-> "ok", msg |-> MsgNone,
                   data |-> Slice(r.byte_offset, r.len),
                   width |-> r.width, height |-> r.height,
                   byte_offset |-> r.byte_offset, len |-> r.len]

\* ------------------------------------------------------------- write_ktx2
\* unsafe from_raw_parts(vecs.as_ptr() as *const f16, vecs.len() / 2):
\* half-float k is read from bytes 2k and 2k+1 of the slice
to_vec_f16_from_byte_slice(vecs) ==
    [k \in 1..(Len(vecs) \div F16Bytes) |-> << vecs[2 * k - 1], vecs[2 * k] >>]

\* The cast needs a 2-aligned pointer.  A non-empty Vec<u8> comes from the
\* allocator and is aligned; an empty one holds the dangling pointer 0x1, which
\* is undefined behaviour: a build with the standard library's precondition
\* checks aborts, a build without them goes on with an empty slice.
CastOutcomes(vecs) == IF Len(vecs) = 0 THEN {"empty_slice", "abort"} ELSE {"aligned"}

\* half::f16::to_f32 is exact: the value stays the one read from the two bytes
to_f32(h) == h

\* The packed word of three floats, kept as the triple it was encoded from.
float3_to_rgb9e5(rgb) == [r |-> rgb[1], g |-> rgb[2], b |-> rgb[3]]

\* slice.chunks(n): chunks of n elements, the last one shorter when Len % n # 0
chunks(s, n) ==
    [j \in 1..((Len(s) + n - 1) \div n) |->
        SubSeq(s, n * (j - 1) + 1, IF n * j < Len(s) THEN n * j ELSE Len(s))]

\* faulty variant: the alpha value is not skipped
EncodeChunksOfThree(f16data) ==
    LET cs == chunks(f16data, 3)
    IN  IF \E j \in DOMAIN cs : Len(cs[j]) < 3
        THEN [ok |-> FALSE, words |-> << >>,
              msg |-> IF \E j \in DOMAIN cs : Len(cs[j]) = 1
                      THEN MsgIndex1 ELSE MsgIndex2]
        ELSE [ok |-> TRUE, msg |-> MsgNone,
              words |-> [j \in DOMAIN cs |->
                  float3_to_rgb9e5(<< to_f32(cs[j][1]), to_f32(cs[j][2]),
                                      to_f32(cs[j][3]) >>)]]

\* for v in f16data.chunks(4) { rgb9e5.push(float3_to_rgb9e5(&[v[0], v[1], v[2]])) }
\* chunks are never empty; on a last chunk of one half-float v[1] panics, on
\* one of two v[2] panics; a last chunk of three is encoded like a full one
EncodeChunks(f16data) ==
    LET cs == chunks(f16data, ChunkLen)
    IN  IF \E j \in DOMAIN cs : Len(cs[j]) < 3
        THEN [ok |-> FALSE, words |-> << >>,
              msg |-> IF \E j \in DOMAIN cs : Len(cs[j]) = 1
                      THEN MsgIndex1 ELSE MsgIndex2]
        ELSE [ok |-> TRUE, msg |-> MsgNone,
              words |-> [j \in DOMAIN cs |->
                  float3_to_rgb9e5(<< to_f32(cs[j][1]), to_f32(cs[j][2]),
                                      to_f32(cs[j][3]) >>)]]

\* u32_to_bytes(&rgb9e5).len()
u32_to_bytes_len(vecs) == Len(vecs) * U32Bytes

\* WriterLevel { uncompressed_length, bytes: zstd::bulk::compress(..) }: zstd is
\* lossless, so the compressed bytes are kept as the words they decompress to.
WriterLevel(words) ==
    [uncompressed_length |-> u32_to_bytes_len(words), payload |-> words]

\* ------------------------------------------------------- create_rgb9e5_dfd
\* fn push(word, out): out.extend_from_slice(&word.to_le_bytes())
push(word, out) == out \o to_le_bytes(word)

word1 == BitOr(Shl(BASIC_BLOCK_BYTE_LENGTH, 16), VERSION_NUMBER)

word2 ==
    BitOr(BitOr(BitOr(COLOR_MODEL_RGBSDA, Shl(COLOR_PRIMARIES_BT709, 8)),
                Shl(TRANSFER_LINEAR, 16)),
          Shl(FLAGS_STRAIGHT_ALPHA, 24))

\* faulty variant: the second bytesPlane word is not pushed
HeaderWordsShort == << 0, word1, word2, 0, 4 >>

\* the six push(..) calls after the placeholder: word0, word1, word2,
\* texelBlockDimensions, bytesPlane0-3, bytesPlane4-7
HeaderWords == << 0, word1, word2, 0, 4, 0 >>

push_sample(out, bit_offset, bit_length_bits, channel_type, qualifiers, lower, upper) ==
    LET first_word ==
            BitOr(BitOr(BitOr(bit_offset, Shl(bit_length_bits - 1, 16)),
                        Shl(channel_type, 24)),
                  Shl(qualifiers, 28))
    IN  push(upper, push(lower, push(0, push(first_word, out))))

\* the arguments of the six push_sample calls, in the order of the calls
SampleArgs ==
    << << 0, 9, CH_R, QUAL_NONE, 0, 8448 >>,
       << 27, 5, CH_R, QUAL_EXPONENT, 15, 31 >>,
       << 9, 9, CH_G, QUAL_NONE, 0, 8448 >>,
       << 27, 5, CH_G, QUAL_EXPONENT, 15, 31 >>,
       << 18, 9, CH_B, QUAL_NONE, 0, 8448 >>,
       << 27, 5, CH_B, QUAL_EXPONENT, 15, 31 >> >>

\* faulty variant: the block length is patched in instead of the buffer's length
total_size_block(d) == BASIC_BLOCK_BYTE_LENGTH

\* let total_size = dfd.len() as u32
total_size(d) == Len(d)

\* ------------------------------------------------------------------ state
VARIABLES
    image,          \* the source image: descriptor fields and buffer length
    pc,             \* the statement the call is at
    call,           \* the top-level call and its arguments
    ret,            \* the value (or panic) of a direct extract_mip_level call
    outcome,        \* how the top-level call ended
    mip_level,      \* write_ktx2: the outer loop variable
    face,           \* write_ktx2: the inner loop variable
    rgb9e5,         \* write_ktx2: the words of the level being built
    mips,           \* write_ktx2: the WriterLevels built so far
    regions,        \* the regions write_ktx2 has asked extract_mip_level for
    dfd,            \* create_rgb9e5_dfd: the byte vector
    dfd_i,          \* create_rgb9e5_dfd: the next header word or sample
    file,           \* the output file: absent, created (empty or partial), written
    create_calls,   \* the number of File::create calls made
    write_calls     \* the number of KTX2Writer::write calls made

wvars == << mip_level, face, rgb9e5, mips, regions >>
dvars == << dfd, dfd_i >>
fvars == << file, create_calls, write_calls >>
vars == << image, pc, call, ret, outcome, wvars, dvars, fvars >>

\* A buffer in the face-major, mip-minor layout of this image holds FullLen
\* bytes; the model also feeds in a buffer one byte short of it.  An image
\* whose format has no block copy size is given an empty buffer (the code
\* panics before it looks at the buffer).
FullLen(w, h, b, m) ==
    IF b = << >> THEN 0 ELSE NumFaces * ChainLoop(w, h, b[1], m)

Images ==
    { [width |-> w, height |-> h, mip_level_count |-> m, block_copy_size |-> b,
       compressed |-> c,
       data_len |-> IF FullLen(w, h, b, m) = 0 THEN 0
                    ELSE FullLen(w, h, b, m) - short] :
        w \in 1..MaxDim, h \in 1..MaxDim, m \in 1..MaxMips, b \in BlockSizes,
        c \in BOOLEAN, short \in 0..1 }

NoCall == [fn |-> "none", mip_level |-> 0, face |-> 0]
Running == [kind |-> "running", msg |-> MsgNone]
NoRet == Panic("none", MsgNone)

Init ==
    /\ image \in Images
    /\ pc = "idle"
    /\ call = NoCall
    /\ ret = NoRet
    /\ outcome = Running
    /\ mip_level = 0
    /\ face = 0
    /\ rgb9e5 = << >>
    /\ mips = << >>
    /\ regions = {}
    /\ dfd = << >>
    /\ dfd_i = 0
    /\ file = "absent"
    /\ create_calls = 0
    /\ write_calls = 0

\* A direct call of the public function extract_mip_level.
CallExtract ==
    /\ pc = "idle"
    /\ \E m \in 0..MaxMips + 1, f \in 0..NumFaces - 1 :
        /\ call' = [fn |-> "extract_mip_level", mip_level |-> m, face |-> f]
        /\ ret' = extract_mip_level(image, m, f)
        /\ outcome' = IF ret'.kind = "ok"
                      THEN [kind |-> "returned", msg |-> MsgNone]
                      ELSE [kind |-> ret'.kind, msg |-> ret'.msg]
    /\ pc' = "done"
    /\ UNCHANGED << image, wvars, dvars, fvars >>

Fail(kind, msg) ==
    /\ pc' = "done"
    /\ outcome' = [kind |-> kind, msg |-> msg]

\* A call of the public function write_ktx2.
CallWrite ==
    /\ pc = "idle"
    /\ call' = [fn |-> "write_ktx2", mip_level |-> 0, face |-> 0]
    /\ pc' = "check"
    /\ UNCHANGED << image, ret, outcome, wvars, dvars, fvars >>

\* faulty variant: the format is not looked at
CheckMissing ==
    /\ pc = "check"
    /\ pc' = "level"
    /\ UNCHANGED << image, call, ret, outcome, wvars, dvars, fvars >>

\* if image.is_compressed() { panic!(..) }  let mut mips = Vec::new();
Check ==
    /\ pc = "check"
    /\ IF image.compressed
       THEN Fail("panic", MsgCompressed)
       ELSE pc' = "level" /\ outcome' = outcome
    /\ UNCHANGED << image, call, ret, wvars, dvars, fvars >>

\* for mip_level in 0..mip_level_count { let mut rgb9e5 = Vec::new(); ..
LevelHead ==
    /\ pc = "level"
    /\ IF mip_level < image.mip_level_count
       THEN pc' = "face" /\ rgb9e5' = << >> /\ face' = 0
       ELSE pc' = "dfd_init" /\ UNCHANGED << rgb9e5, face >>
    /\ UNCHANGED << image, call, ret, outcome, mip_level, mips, regions, dvars, fvars >>

\* One iteration of `for face in 0..6`: the region is extracted, read as
\* half-floats and encoded; after the sixth the loop is left.
FaceStep ==
    /\ pc = "face"
    /\ IF face < NumFaces
       THEN LET mip_data == extract_mip_level(image, mip_level, face)
            IN  /\ regions' =
                    IF mip_data.msg = MsgUnwrapNone THEN regions
                    ELSE LET r == Region(image, mip_level, face)
                         IN  regions \cup
                                {[mip |-> mip_level, face |-> face,
                                  byte_offset |-> r.byte_offset, len |-> r.len]}
                /\ IF mip_data.kind # "ok"
                   THEN Fail(mip_data.kind, mip_data.msg) /\ UNCHANGED << rgb9e5, face >>
                   ELSE \E cast \in CastOutcomes(mip_data.data) :
                        LET enc == EncodeChunks(to_vec_f16_from_byte_slice(mip_data.data))
                        IN  IF cast = "abort"
                            THEN Fail("abort", MsgUbCheck) /\ UNCHANGED << rgb9e5, face >>
                            ELSE IF ~enc.ok
                            THEN Fail("panic", enc.msg) /\ UNCHANGED << rgb9e5, face >>
                            ELSE /\ rgb9e5' = rgb9e5 \o enc.words
                                 /\ face' = face + 1
                                 /\ UNCHANGED << pc, outcome >>
       ELSE pc' = "compress" /\ UNCHANGED << outcome, rgb9e5, face, regions >>
    /\ UNCHANGED << image, call, ret, mip_level, mips, dvars, fvars >>

\* mips.push(WriterLevel { uncompressed_length, bytes: compress(..).unwrap() })
Compress ==
    /\ pc = "compress"
    /\ \E ok \in BOOLEAN :
        IF ok
        THEN /\ mips' = Append(mips, WriterLevel(rgb9e5))
             /\ mip_level' = mip_level + 1
             /\ pc' = "level"
             /\ outcome' = outcome
        ELSE Fail("panic", MsgZstd) /\ UNCHANGED << mips, mip_level >>
    /\ UNCHANGED << image, call, ret, face, rgb9e5, regions, dvars, fvars >>

\* let mut dfd = Vec::with_capacity(132); dfd.extend_from_slice(&0u32.to_le_bytes());
DfdInit ==
    /\ pc = "dfd_init"
    /\ dfd' = to_le_bytes(0)
    /\ dfd_i' = 1
    /\ pc' = "dfd_header"
    /\ UNCHANGED << image, call, ret, outcome, wvars, fvars >>

\* one of the six push(word, &mut dfd) of the block header and basic descriptor
DfdPushHeader ==
    /\ pc = "dfd_header"
    /\ dfd' = push(HeaderWords[dfd_i], dfd)
    /\ IF dfd_i < Len(HeaderWords)
       THEN dfd_i' = dfd_i + 1 /\ pc' = pc
       ELSE dfd_i' = 1 /\ pc' = "dfd_sample"
    /\ UNCHANGED << image, call, ret, outcome, wvars, fvars >>

\* one of the six push_sample(&mut dfd, ..)
DfdPushSample ==
    /\ pc = "dfd_sample"
    /\ LET a == SampleArgs[dfd_i]
       IN  dfd' = push_sample(dfd, a[1], a[2], a[3], a[4], a[5], a[6])
    /\ IF dfd_i < Len(SampleArgs)
       THEN dfd_i' = dfd_i + 1 /\ pc' = pc
       ELSE dfd_i' = 0 /\ pc' = "dfd_patch"
    /\ UNCHANGED << image, call, ret, outcome, wvars, fvars >>

\* dfd[0..4].copy_from_slice(&total_size.to_le_bytes()); the DFD is returned
DfdPatch ==
    /\ pc = "dfd_patch"
    /\ dfd' = to_le_bytes(total_size(dfd)) \o SubSeq(dfd, 5, Len(dfd))
    /\ pc' = "create"
    /\ UNCHANGED << image, call, ret, outcome, wvars, dfd_i, fvars >>

\* faulty variant: a failed create is tried again
OnCreateErrRetry ==
    IF create_calls < 2
    THEN pc' = "create" /\ outcome' = outcome
    ELSE Fail("panic", MsgCreate)

\* .unwrap() on the Err of File::create
OnCreateErr == Fail("panic", MsgCreate)

\* std::fs::File::create(output_path).unwrap()
CreateFile ==
    /\ pc = "create"
    /\ create_calls' = create_calls + 1
    /\ \E ok \in BOOLEAN :
        IF ok
        THEN file' = "created" /\ pc' = "write" /\ outcome' = outcome
        ELSE OnCreateErr /\ file' = file
    /\ UNCHANGED << image, call, ret, wvars, dvars, write_calls >>

\* writer.write(&mut file).unwrap(); a failed write leaves what it wrote
WriteSink ==
    /\ pc = "write"
    /\ write_calls' = write_calls + 1
    /\ \E ok \in BOOLEAN :
        IF ok
        THEN file' = "written" /\ Fail("returned", MsgNone)
        ELSE file' = file /\ Fail("panic", MsgWrite)
    /\ UNCHANGED << image, call, ret, wvars, dvars, create_calls >>

Next ==
    \/ CallExtract
    \/ CallWrite
    \/ Check
    \/ LevelHead
    \/ FaceStep
    \/ Compress
    \/ DfdInit
    \/ DfdPushHeader
    \/ DfdPushSample
    \/ DfdPatch
    \/ CreateFile
    \/ WriteSink

Spec == Init /\ [][Next]_vars

\* ================================================================ claims
\* What the claims speak of, stated from the specification's own formulas
\* (right shifts and sums), not from the loops above.
ShiftR(x, k) == x \div Pow2(k)

LevelBytes(img, k) == ShiftR(img.width, k) * ShiftR(img.height, k) * BlockSize(img)

RECURSIVE SumLevels(_, _)
\* sum over k in [0, n) of (W>>k)*(H>>k)*B
SumLevels(img, n) ==
    IF n = 0 THEN 0 ELSE SumLevels(img, n - 1) + LevelBytes(img, n - 1)

ClaimOffset(img, m, f) == f * SumLevels(img, img.mip_level_count) + SumLevels(img, m)

TotalBytes(img) == NumFaces * SumLevels(img, img.mip_level_count)

ExtractDone == pc = "done" /\ call.fn = "extract_mip_level"

InWrite == call.fn = "write_ktx2"

\* the level loop of write_ktx2 has been left
LoopLeft == InWrite /\ mip_level = image.mip_level_count

\* create_rgb9e5_dfd has returned its buffer
DfdReturned == pc \in {"create", "write"} \/ create_calls > 0

IsExample4x4(img) ==
    /\ img.width = 4 /\ img.height = 4 /\ img.mip_level_count = 3
    /\ img.block_copy_size = << 8 >>

\* C1: for 0 <= m < M and 0 <= f < 6, extract_mip_level returns the slice of
\* the source buffer that starts at f * (sum of all M level sizes) + (sum of the
\* sizes of the levels below m) and is (W>>m)*(H>>m)*B bytes long, the
\* dimensions halved with floor and never clamped to 1; for base 4x4, M=3, B=8
\* the levels of face 0 are at 0, 128, 160 with lengths 128, 32, 8 and face 1
\* starts at 168.
C1_RegionOffsetAndLength ==
    (ExtractDone /\ call.mip_level < image.mip_level_count
        /\ image.block_copy_size # << >>) =>
        LET m == call.mip_level
            f == call.face
            off == ClaimOffset(image, m, f)
            len == LevelBytes(image, m)
        IN  /\ (off + len <= image.data_len) =>
                /\ ret.kind = "ok"
                /\ Len(ret.data) = len
                /\ \A i \in 1..len : ret.data[i] = off + i - 1
                /\ ret.width = ShiftR(image.width, m)
                /\ ret.height = ShiftR(image.height, m)
            /\ (ret.kind = "ok") => (ret.byte_offset = off /\ ret.len = len)
            /\ (IsExample4x4(image) /\ ret.kind = "ok" /\ f = 0) =>
                << ret.byte_offset, ret.len >> =
                    (CASE m = 0 -> << 0, 128 >> [] m = 1 -> << 128, 32 >>
                       [] OTHER -> << 160, 8 >>)
            /\ (IsExample4x4(image) /\ ret.kind = "ok" /\ f = 1 /\ m = 0) =>
                ret.byte_offset = 168

C1_Witness ==
    /\ ExtractDone /\ IsExample4x4(image)
    /\ call.mip_level = 2 /\ call.face = 1
    /\ ret.kind = "ok"
    /\ ret.data = << 328, 329, 330, 331, 332, 333, 334, 335 >>

\* C2: a call of extract_mip_level with a mip level m >= M (m = M included)
\* fails with the out-of-range precondition failure and never returns an image
\* (stated for the images whose format has a block copy size: on the others
\* the call with m = M fails too, on the unwrap of the missing size).
C2_OutOfRangeMipFails ==
    (ExtractDone /\ call.mip_level >= image.mip_level_count
        /\ image.block_copy_size # << >>) =>
        (ret.kind = "panic" /\ ret.msg = MsgMipLevel)

\* RGBA half-float: four 2-byte channels per texel
TexelBytes == ChunkLen * F16Bytes

\* the word of the texel whose first byte is byte o of the source buffer:
\* red from bytes o, o+1, green from o+2, o+3, blue from o+4, o+5; the alpha
\* bytes o+6, o+7 are in no word
TexelWord(o) ==
    [r |-> << o, o + 1 >>, g |-> << o + 2, o + 3 >>, b |-> << o + 4, o + 5 >>]

FaceWords(img, m, f) ==
    [t \in 1..(ShiftR(img.width, m) * ShiftR(img.height, m)) |->
        TexelWord(ClaimOffset(img, m, f) + TexelBytes * (t - 1))]

RECURSIVE LevelWords(_, _, _)
\* the words of faces 0 .. n-1 of level m, in ascending face order
LevelWords(img, m, n) ==
    IF n = 0 THEN << >> ELSE LevelWords(img, m, n - 1) \o FaceWords(img, m, n - 1)

\* C3: for an uncompressed source image (RGBA half-float texels, 8 bytes each)
\* write_ktx2 builds M levels in ascending mip order; level m is faces 0..5 in
\* ascending order, one packed word per source texel of each region with the
\* alpha value dropped, and records 6 * (W>>m) * (H>>m) * 4 uncompressed bytes,
\* so the recorded lengths never grow with m (M=1, 1x1: one level of 6 words).
C3_LevelSequence ==
    (InWrite /\ image.block_copy_size = << TexelBytes >>) =>
        /\ Len(mips) = mip_level
        /\ LoopLeft => Len(mips) = image.mip_level_count
        /\ (pc \in {"dfd_init", "dfd_header", "dfd_sample", "dfd_patch"} \/ DfdReturned)
                => LoopLeft
        /\ \A i \in 1..Len(mips) :
            /\ mips[i].payload = LevelWords(image, i - 1, NumFaces)
            /\ mips[i].uncompressed_length =
                    6 * ShiftR(image.width, i - 1) * ShiftR(image.height, i - 1) * 4
        /\ \A i \in 1..(Len(mips) - 1) :
            mips[i + 1].uncompressed_length <= mips[i].uncompressed_length
        /\ (LoopLeft /\ image.width = 1 /\ image.height = 1
                /\ image.mip_level_count = 1) =>
            (Len(mips) = 1 /\ Len(mips[1].payload) = 6)

C3_Witness ==
    /\ InWrite /\ IsExample4x4(image) /\ pc = "dfd_init"
    /\ Len(mips) = 3
    /\ mips[2].uncompressed_length = 96
    /\ Len(mips[1].payload) = 96
    /\ mips[1].payload[17] = TexelWord(168)

RECURSIVE LEBytes(_, _)
\* the n low bytes of w, lowest first
LEBytes(w, n) == IF n = 0 THEN << >> ELSE << w % 256 >> \o LEBytes(w \div 256, n - 1)

LEValue(b) == b[1] + 256 * b[2] + 65536 * b[3] + 16777216 * b[4]

\* a sample descriptor as the specification packs it
Descriptor(offset, length, type, qualifier, low, high) ==
    LEBytes(offset + (length - 1) * 65536 + type * 16777216
                + qualifier * 268435456, 4)
        \o << 0, 0, 0, 0 >> \o LEBytes(low, 4) \o LEBytes(high, 4)

\* the k-th of the six 16-byte sample descriptors the buffer ends with
Sample(d, k) == SubSeq(d, Len(d) - 16 * (7 - k) + 1, Len(d) - 16 * (6 - k))

\* the six descriptors of the specification's table, the exponent samples
\* with the type codes er, eg, eb
SampleTable(er, eg, eb) ==
    << Descriptor(0, 9, 0, QUAL_NONE, 0, 8448),
       Descriptor(27, 5, er, QUAL_EXPONENT, 15, 31),
       Descriptor(9, 9, 1, QUAL_NONE, 0, 8448),
       Descriptor(27, 5, eg, QUAL_EXPONENT, 15, 31),
       Descriptor(18, 9, 2, QUAL_NONE, 0, 8448),
       Descriptor(27, 5, eb, QUAL_EXPONENT, 15, 31) >>

\* C4: the buffer ends with the six 16-byte sample descriptors of the table
\* (R mantissa, R exponent, G mantissa, G exponent, B mantissa, B exponent, in
\* the stated packing, geometry, qualifiers and ranges), every exponent sample
\* with type code 3 (CH_EXPONENT).  The code passes CH_R, CH_G, CH_B instead.
C4_SamplesExponentType3 ==
    DfdReturned =>
        \A k \in 1..6 : Sample(dfd, k) = SampleTable(3, 3, 3)[k]

\* C5: the first 4 bytes of the returned buffer, read little-endian, are the
\* byte length of the buffer; they hold the placeholder 0 while the header
\* words and the samples are appended and are patched only after all six
\* samples are there.
C5_TotalSizePatchedLast ==
    /\ DfdReturned => LEValue(SubSeq(dfd, 1, 4)) = Len(dfd)
    /\ (pc \in {"dfd_header", "dfd_sample", "dfd_patch"}) =>
            SubSeq(dfd, 1, 4) = << 0, 0, 0, 0 >>
    /\ (Len(dfd) >= 4 /\ SubSeq(dfd, 1, 4) # << 0, 0, 0, 0 >>) =>
            /\ DfdReturned
            /\ Len(dfd) = 4 + 4 * Len(HeaderWords) + 16 * NUM_SAMPLES
            /\ \A k \in 1..NUM_SAMPLES : Sample(dfd, k)[9] \in {0, 15}

C5_Witness ==
    /\ DfdReturned
    /\ Len(dfd) > 4
    /\ dfd[1] = Len(dfd)
    /\ SubSeq(dfd, 2, 4) = << 0, 0, 0 >>

\* C6: the 2nd, 4th and 6th sample descriptors (the three exponent samples)
\* are byte-identical.  In the code they differ in the channel code of byte 4.
C6_ExponentSamplesIdentical ==
    DfdReturned =>
        (Sample(dfd, 2) = Sample(dfd, 4) /\ Sample(dfd, 4) = Sample(dfd, 6))

\* C7 as stated: the returned buffer is 120 bytes long.
C7_Length120 == DfdReturned => Len(dfd) = 120

\* C7 as amended: the returned buffer is 124 bytes long: the 4-byte prefix,
\* the 2-word block header, a 4-word basic descriptor (the bytesPlane counts
\* take two words) and six 16-byte sample descriptors.
C7_Length124 ==
    DfdReturned =>
        /\ Len(dfd) = 124
        /\ Len(dfd) = 4 + 2 * 4 + 4 * 4 + 6 * 16
        /\ SubSeq(dfd, 5, 12) = LEBytes(0, 4) \o LEBytes(120 * 65536 + 2, 4)
        /\ SubSeq(dfd, 13, 28) =
                LEBytes(1 + 256 + 65536, 4) \o LEBytes(0, 4) \o LEBytes(4, 4)
                    \o LEBytes(0, 4)
        /\ Sample(dfd, 1) = SubSeq(dfd, 29, 44)

C7_Witness ==
    /\ DfdReturned
    /\ Len(dfd) = 124
    /\ SubSeq(dfd, 9, 12) = << 2, 0, 120, 0 >>

PreCreateFailures ==
    {MsgCompressed, MsgMipLevel, MsgUnwrapNone, MsgSlice, MsgIndex1, MsgIndex2,
     MsgUbCheck, MsgZstd}

\* C8: on a compressed source write_ktx2 aborts at once: no region is
\* extracted, no level compressed, no file created; and in every run the file
\* is created only after the format check passed and all M levels were
\* extracted, encoded and compressed, so a failure in one of those steps
\* leaves no output file.
C8_FileOnlyAfterAllLevels ==
    InWrite =>
        /\ image.compressed =>
            /\ pc \in {"check", "done"}
            /\ regions = {} /\ rgb9e5 = << >> /\ mips = << >>
            /\ file = "absent" /\ create_calls = 0
            /\ pc = "done" => outcome = [kind |-> "panic", msg |-> MsgCompressed]
        /\ (file # "absent" \/ create_calls > 0) =>
            /\ ~image.compressed
            /\ Len(mips) = image.mip_level_count
            /\ Cardinality(regions) = NumFaces * image.mip_level_count
        /\ (pc = "done" /\ outcome.msg \in PreCreateFailures) =>
            (file = "absent" /\ create_calls = 0)

C8_Witness ==
    /\ InWrite /\ pc = "done" /\ image.compressed
    /\ outcome.msg = MsgCompressed
    /\ file = "absent"

SinkFailed == InWrite /\ pc = "done" /\ outcome.msg \in {MsgCreate, MsgWrite}

\* C9 as stated: a failure to create or write the sink reaches the caller as
\* an outcome of another kind than a precondition failure (which is a panic),
\* and neither the create nor the write is retried.
C9_SinkFailureDistinctKind ==
    /\ SinkFailed => outcome.kind # "panic"
    /\ create_calls <= 1 /\ write_calls <= 1

\* C9 as amended: a failure to create or write the sink makes write_ktx2
\* panic, the same kind of outcome as a precondition failure, told apart from
\* it only by the panic message (the unwrapped I/O error); neither the create
\* nor the write is retried.
C9_SinkFailurePanicsOnce ==
    /\ SinkFailed =>
        /\ outcome.kind = "panic"
        /\ outcome.msg \notin PreCreateFailures
        /\ outcome.msg = MsgCreate => (file = "absent" /\ write_calls = 0)
        /\ outcome.msg = MsgWrite => (file = "created" /\ write_calls = 1)
    /\ create_calls <= 1 /\ write_calls <= 1

C9_Witness ==
    /\ SinkFailed
    /\ outcome = [kind |-> "panic", msg |-> MsgWrite]
    /\ create_calls = 1 /\ write_calls = 1

\* the region write_ktx2 asked for at place idx of the face-major, mip-minor
\* order
RegionAt(idx) ==
    CHOOSE r \in regions :
        /\ r.face = idx \div image.mip_level_count
        /\ r.mip = idx % image.mip_level_count

\* C10: the 6*M regions write_ktx2 asks extract_mip_level for are pairwise
\* non-overlapping, lie back to back in face-major then mip-minor order from
\* offset 0 and cover exactly [0, 6 * sum of the M level sizes), so on a buffer
\* of that length no requested slice reaches past the end.
C10_RegionsTileTheBuffer ==
    (InWrite /\ image.block_copy_size # << >>) =>
        /\ \A r \in regions :
            /\ 0 <= r.byte_offset
            /\ r.byte_offset + r.len <= TotalBytes(image)
        /\ \A r, q \in regions :
            (r # q) =>
                \/ r.byte_offset + r.len <= q.byte_offset
                \/ q.byte_offset + q.len <= r.byte_offset
        /\ (image.data_len = TotalBytes(image)) => outcome.msg # MsgSlice
        /\ LoopLeft =>
            LET n == NumFaces * image.mip_level_count
            IN  /\ Cardinality(regions) = n
                /\ \A idx \in 0..(n - 1) :
                    /\ \E r \in regions :
                        /\ r.face = idx \div image.mip_level_count
                        /\ r.mip = idx % image.mip_level_count
                    /\ RegionAt(idx).byte_offset =
                        (IF idx = 0 THEN 0
                         ELSE RegionAt(idx - 1).byte_offset + RegionAt(idx - 1).len)
                /\ RegionAt(n - 1).byte_offset + RegionAt(n - 1).len
                        = TotalBytes(image)

C10_Witness ==
    /\ LoopLeft /\ IsExample4x4(image)
    /\ Cardinality(regions) = 18
    /\ [mip |-> 2, face |-> 5, byte_offset |-> 1000, len |-> 8] \in regions
====
